---- MODULE Spec2Model ----
\* The top-tree level of the aggregation tree of turbo-tasks-memory
\* (crates/turbo-tasks-memory/src/aggregation_tree/top_tree.rs): per-node
\* mutexes, the counted set of upper links, change propagation and root queries.
EXTENDS Integers, Sequences, FiniteSets, TLC

\* ------------------------------------------------------------------ bounds
\* Total number of structural edges (counted with multiplicity) alive or being added.
MaxEdges == 2
\* Total amount of information the bottom trees have reported into the nodes.
MaxBase == 1
\* Entry-point calls the threads of a concurrent run make in total.
MaxCalls == 4
\* The same two budgets for the runs on a single leaf and its children.
LeafEdges == 3
LeafBase == 2
\* Calls made on the counted set examined on its own.
MaxOps == 4
\* Entry-point calls, edges and reported information of a concurrent run in which
\* threads also take guards.
GuardCalls == 3
GuardEdges == 2
GuardBase == 1
\* Edges and reported information of the sequential runs that build the link
\* structures queried by get_root_info.
QueryEdges == 4
QueryBase == 2
\* Entry-point calls of a sequential run whose links are kept account of.
BookCalls == 4
\* Calls of TaskHasher::calculate_task_hash on one hasher, and the number of
\* values a hash takes.
HashCalls == 3
HashSpace == 4

Items == {"a", "b"}
Threads == {"t1", "t2"}
\* The nodes of the universe, (item, depth): two roots at depth 0, two nodes at
\* depth 1 and one at depth 2, enough for a chain of three and for a diamond.
Nodes == {<<"a", 0>>, <<"b", 0>>, <<"a", 1>>, <<"b", 1>>, <<"a", 2>>}
NoNode == <<"-", 0>>
NoThread == "-"

\* Option<C::ItemChange>
None == <<>>
Some(c) == <<c>>
Unwrap(o) == o[1]

depth(n) == n[2]
Depths == {depth(n) : n \in Nodes}
MaxDepth == CHOOSE d \in Depths : \A e \in Depths : e <= d

\* ------------------------------------------------- the factory (leaf.rs)
\* top_tree(context, item, depth): the canonical node of (item, depth).
top_tree(item, d) == <<item, d>>

\* ------------------------------------- CountHashSet (count_hash_set.rs)
EmptyCountHashSet == [u \in Nodes |-> 0]
\* add(x): the new set and whether x's count went 0 -> 1
CountAdd(set, x) == [set |-> [set EXCEPT ![x] = @ + 1], ret |-> (set[x] = 0)]
\* faulty variant: remove(x) reporting every removal as the last one
CountRemove_AnyLast(set, x) ==
    IF set[x] = 0 THEN [set |-> set, ret |-> FALSE]
    ELSE [set |-> [set EXCEPT ![x] = @ - 1], ret |-> TRUE]

\* remove(x): the new set and whether x's count went 1 -> 0; ignored at count 0
CountRemove(set, x) ==
    IF set[x] = 0 THEN [set |-> set, ret |-> FALSE]
    ELSE [set |-> [set EXCEPT ![x] = @ - 1], ret |-> (set[x] = 1)]
\* iter(): the distinct elements
CountIter(set) == {x \in DOMAIN set : set[x] > 0}

\* ------------------------------ the aggregation policy (AggregationContext)
\* Info is the number reported directly into a node plus the number of linked
\* lower nodes whose own info is not zero ("count of live children"). A change is
\* an integer delta.
DefaultInfo == 0
\* apply_change: add the delta; the forwarded change says whether the node
\* became live (+1) or dead (-1), and is absent when that did not change.
apply_change(data, change) ==
    LET new == data + change IN
    [data |-> new,
     fwd  |-> IF (data = 0) = (new = 0) THEN None
              ELSE IF new = 0 THEN Some(-1) ELSE Some(1)]
info_to_add_change(data) == IF data = 0 THEN None ELSE Some(1)
info_to_remove_change(data) == IF data = 0 THEN None ELSE Some(-1)

RootInfoTypes == {"Count", "IsLive"}
NoRootInfo == [kind |-> "-", val |-> 0]
info_to_root_info(data, kind) ==
    [kind |-> kind, val |-> IF kind = "IsLive" THEN (IF data = 0 THEN 0 ELSE 1) ELSE data]
new_root_info(kind) == [kind |-> kind, val |-> 0]
\* merge_root_info: "IsLive" stops at the first live root, "Count" sums all.
merge_root_info(acc, r) ==
    IF acc.kind = "IsLive"
    THEN [acc  |-> [acc EXCEPT !.val = IF r.val = 1 THEN 1 ELSE @],
          flow |-> IF r.val = 1 THEN "Break" ELSE "Continue"]
    ELSE [acc |-> [acc EXCEPT !.val = @ + r.val], flow |-> "Continue"]

\* ------------------------------------------------------------------ state
VARIABLES
    info,    \* TopTreeState::data of every node
    upper,   \* TopTreeState::upper of every node: count per upper node
    lock,    \* owner of every node's Mutex, NoThread when free
    stack,   \* per thread: the frames of the calls in progress, innermost last
    call,    \* per thread: the entry point being executed
    links,   \* ghost: per (lower, upper) the structural edges added and not removed
    base,    \* ghost: per node the net change reported into it from outside
    ncalls,  \* ghost: entry-point calls made so far in a concurrent run
    raced,   \* ghost: a thread took a lock while another thread was inside a call
    snap,    \* ghost: the state before the last add_child_of_child of a sequential run
    scen,    \* ghost: progress of a run on one leaf through the duplicate-edge script
    law,     \* a counted set examined on its own, with the history of its calls
    visits,  \* ghost: per thread, how often its get_root_info query has locked each node
    book,    \* ghost: per (node, upper) the account of the add_upper / remove_upper calls
    dreq,    \* the depth arithmetic examined on its own: a node's depth and the depth asked for
    hasher   \* a TaskHasher: its package-inputs hashes, its tracker and its last call

vars ==
    <<info, upper, lock, stack, call, links, base, ncalls, raced, snap, scen, law, visits, book,
      dreq, hasher>>

Idle == [api |-> "idle", node |-> NoNode, rest |-> <<>>]

Frame(op, self, up, change, kind) ==
    [op |-> op, self |-> self, upper |-> up, change |-> change, pc |-> "lock",
     todo |-> {}, fwd |-> None, acc |-> [kind |-> kind, val |-> 0], broke |-> FALSE,
     invoked |-> 0, called |-> <<>>, owns |-> {}]

\* the elements the counted set is examined with
Elems == {<<"a", 0>>, <<"b", 0>>}
NoSnap ==
    [phase |-> "none", node |-> NoNode, child |-> NoNode, children |-> <<>>,
     info |-> <<>>, upper |-> <<>>]
NoScen == [step |-> 0, invoked |-> 0, fired |-> <<>>]
NoVisits == [n \in Nodes |-> 0]
NoAccount ==
    [adds |-> 0, removes |-> 0, firsts |-> 0, lasts |-> 0, addCh |-> 0, remCh |-> 0,
     under |-> FALSE]

\* the largest value of `depth: u8`
U8Max == 255
NoRequest == [depth |-> 0, done |-> FALSE, out |-> None]

InitTree ==
    /\ info = [n \in Nodes |-> DefaultInfo]
    /\ upper = [n \in Nodes |-> EmptyCountHashSet]
    /\ lock = [n \in Nodes |-> NoThread]
    /\ stack = [t \in Threads |-> <<>>]
    /\ call = [t \in Threads |-> Idle]
    /\ links = [p \in Nodes \X Nodes |-> 0]
    /\ base = [n \in Nodes |-> 0]
    /\ ncalls = 0
    /\ raced = FALSE
    /\ snap = NoSnap
    /\ scen = NoScen
    /\ law = [set |-> EmptyCountHashSet, ops |-> 0,
              adds |-> [x \in Elems |-> 0], removes |-> [x \in Elems |-> 0],
              addsTrue |-> [x \in Elems |-> 0], removesTrue |-> [x \in Elems |-> 0],
              ups |-> [x \in Elems |-> 0], downs |-> [x \in Elems |-> 0],
              under |-> [x \in Elems |-> FALSE]]
    /\ visits = [t \in Threads |-> NoVisits]
    /\ book = [p \in Nodes \X Nodes |-> NoAccount]

\* ----------------------------------------------------- TaskHasher: data
ROOT_PKG_NAME == "//"
\* task ids (package, task): two packages with a task of the same name, and a
\* task of the root package
TaskIds == {<<"p", "build">>, <<"q", "build">>, <<ROOT_PKG_NAME, "build">>}
NoTask == <<"-", "-">>
package(task_id) == task_id[1]
\* TaskNode: Root, or Task(task_id)
TaskNodes == {[kind |-> "Root", id |-> NoTask]} \cup {[kind |-> "Task", id |-> i] : i \in TaskIds}
EnvModes == {"Loose", "Strict"}
\* values of TaskDefinition::pass_through_env
PassThroughEnvs == {<<>>, <<"TOKEN">>}
NoCall ==
    [task |-> NoTask, deps |-> {}, mode |-> "-", result |-> "none", hash |-> None,
     fed |-> <<>>, twin |-> None, before |-> <<>>]

\* PackageInputsHashes::calculate_file_hashes records a hash for the tasks it is
\* given that are not of the root package
FileHashSets == SUBSET {i \in TaskIds : package(i) # ROOT_PKG_NAME}

\* TaskHasher::new: an empty tracker
TaskHasher_new(files) ==
    [files |-> files,
     package_task_hashes |-> [i \in TaskIds |-> None],
     package_task_env_vars |-> [i \in TaskIds |-> None],
     calls |-> 0, last |-> NoCall]

Init == InitTree /\ dreq = NoRequest /\ hasher = TaskHasher_new({})

\* a node of any depth a u8 holds, before it is asked for a child's node
InitDepth ==
    /\ InitTree
    /\ dreq \in {[NoRequest EXCEPT !.depth = d] : d \in 0..U8Max}
    /\ hasher = TaskHasher_new({})

\* a hasher made with the package-inputs hashes of any set of tasks
InitHash ==
    /\ InitTree
    /\ dreq = NoRequest
    /\ hasher \in {TaskHasher_new(files) : files \in FileHashSets}

RECURSIVE SumIn(_, _)
SumIn(f, S) ==
    IF S = {} THEN 0
    ELSE LET x == CHOOSE y \in S : TRUE IN f[x] + SumIn(f, S \ {x})
\* the sum of f over S
SumOver(f, S) == SumIn(f, {x \in S : f[x] # 0})

Top(t) == stack[t][Len(stack[t])]
Rest(t) == SubSeq(stack[t], 1, Len(stack[t]) - 1)
IsIdle(t) == stack[t] = <<>> /\ call[t].api = "idle"

\* edges alive, and edges the add_children_of_child calls in progress are still to add
EdgesInUse ==
    SumOver(links, Nodes \X Nodes) + SumOver([t \in Threads |-> Len(call[t].rest)], Threads)

\* Between two lock acquisitions a thread touches only nodes whose lock it holds,
\* so those steps are taken without interleaving: another thread is scheduled
\* only when no thread is inside such a section. A thread that holds an
\* AggregationInfoGuard is outside the tree's code until it drops the guard.
NoLocal ==
    \A t \in Threads : IF stack[t] = <<>> THEN TRUE ELSE Top(t).pc \in {"lock", "held"}

\* faulty variant: a lock that is taken whoever holds it
Unlocked_Unchecked(self) == TRUE

\* self.state.lock() returns once no thread holds the Mutex of self
Unlocked(self) == lock[self] = NoThread

\* faulty variant: a MutexGuard that is never released
Released_Leak(l, self) == l

\* the MutexGuard of self goes out of scope
Released(l, self) == [l EXCEPT ![self] = NoThread]

\* ------------------------------------------------ the locked sections
\* the frame pushed for upper.child_change(context, &change)
ChildChangeFrame(up, change) == Frame("child_change", up, NoNode, change, "-")

\* faulty variant: add_upper without the test of add's result
AddUpperChange_NoDedup(added, data) == [invoked |-> 1, change |-> info_to_add_change(data)]

\* add_upper: what is forwarded to the new upper, and how often the policy's
\* info_to_add_change was invoked for it
AddUpperChange(added, data) ==
    IF added THEN [invoked |-> 1, change |-> info_to_add_change(data)]
    ELSE [invoked |-> 0, change |-> None]

\* add_upper is only called by the entry points, with no lock held
add_upper(t, self, up) ==
    /\ Unlocked(self)
    /\ LET r == CountAdd(upper[self], up)
           c == AddUpperChange(r.ret, info[self])
           change == c.change
           f == [Frame("add_upper", self, up, None, "-") EXCEPT
                    !.fwd = change, !.invoked = c.invoked]
       IN /\ lock' = [lock EXCEPT ![self] = t]
          /\ upper' = [upper EXCEPT ![self] = r.set]
          /\ stack' = [stack EXCEPT ![t] =
                IF change = None THEN <<[f EXCEPT !.pc = "ret"]>>
                ELSE <<[f EXCEPT !.pc = "wait"], ChildChangeFrame(up, change)>>]
    /\ UNCHANGED info

\* faulty variant: remove_upper without the test of remove's result
RemoveUpperChange_NoDedup(removed, data) == info_to_remove_change(data)

\* remove_upper: what is forwarded to the upper that was unlinked
RemoveUpperChange(removed, data) == IF removed THEN info_to_remove_change(data) ELSE None

remove_upper(t, self, up) ==
    /\ Unlocked(self)
    /\ LET r == CountRemove(upper[self], up)
           change == RemoveUpperChange(r.ret, info[self])
           f == [Frame("remove_upper", self, up, None, "-") EXCEPT !.fwd = change]
       IN /\ lock' = [lock EXCEPT ![self] = t]
          /\ upper' = [upper EXCEPT ![self] = r.set]
          /\ stack' = [stack EXCEPT ![t] =
                IF change = None THEN <<[f EXCEPT !.pc = "ret"]>>
                ELSE <<[f EXCEPT !.pc = "wait"], ChildChangeFrame(up, change)>>]
    /\ UNCHANGED info

\* faulty variant: a change that is applied and never handed on
PropagateTargets_Dropped(set, change) == {}

\* propagate_change_to_upper: the uppers that receive the change
PropagateTargets(set, change) == IF change = None THEN {} ELSE CountIter(set)

\* faulty variant: the input change handed on instead of the returned one
ForwardedChange_Input(applied, change) == change

\* child_change: the change handed to propagate_change_to_upper
ForwardedChange(applied, change) == applied.fwd

\* the call a frame in its loop makes on the upper u
Callee(f, u) ==
    IF f.op = "get_root_info" THEN Frame("get_root_info", u, NoNode, None, f.acc.kind)
    ELSE ChildChangeFrame(u, f.fwd)

\* `for TopRef { upper } in state.upper.iter()`: a frame with uppers left calls
\* one of them (the set iterates in no fixed order), a frame with none left is
\* about to return; the frames that replace f on the stack
Loop(f) ==
    IF f.todo = {} THEN {<<[f EXCEPT !.pc = "ret"]>>}
    ELSE {<<[f EXCEPT !.pc = "wait", !.todo = @ \ {u}, !.called = Append(@, u)], Callee(f, u)>> :
             u \in f.todo}

\* child_change on self, called with the frames `below` in progress
child_change(t, below, self, change) ==
    /\ Unlocked(self)
    /\ LET applied == apply_change(info[self], Unwrap(change))
           fwd == ForwardedChange(applied, change)
           f == [ChildChangeFrame(self, change) EXCEPT
                    !.fwd = fwd, !.todo = PropagateTargets(upper[self], fwd)]
       IN /\ lock' = [lock EXCEPT ![self] = t]
          /\ info' = [info EXCEPT ![self] = applied.data]
          /\ \E next \in Loop(f) : stack' = [stack EXCEPT ![t] = below \o next]
    /\ UNCHANGED upper

\* faulty variant: a query that resets the data of the node it has locked
QueriedState_Reset(data, set) == [data |-> DefaultInfo, upper |-> set]

\* get_root_info: the state a query leaves in the node it has locked
QueriedState(data, set) == [data |-> data, upper |-> set]

\* faulty variant: a query that never takes a node for the root
IsRoot_Never(self) == FALSE

\* `if self.depth == 0`: this is the root
IsRoot(self) == depth(self) = 0

\* get_root_info on self, called with the frames `below` in progress; `invoked`
\* counts the calls of new_root_info and merge_root_info the frame has made
get_root_info(t, below, self, root_info_type) ==
    /\ Unlocked(self)
    /\ LET f == Frame("get_root_info", self, NoNode, None, root_info_type)
           after == QueriedState(info[self], upper[self])
       IN /\ lock' = [lock EXCEPT ![self] = t]
          /\ info' = [info EXCEPT ![self] = after.data]
          /\ upper' = [upper EXCEPT ![self] = after.upper]
          /\ \E next \in (IF IsRoot(self)
                          THEN {<<[f EXCEPT !.pc = "ret",
                                      !.acc = info_to_root_info(info[self], root_info_type)]>>}
                          ELSE Loop([f EXCEPT !.acc = new_root_info(root_info_type),
                                              !.invoked = 1,
                                              !.todo = CountIter(upper[self])])) :
                stack' = [stack EXCEPT ![t] = below \o next]

\* --------------------------------------------------------- entry points
\* faulty variant: the child's node taken at the depth of self
ChildNode_SameDepth(self, child) == top_tree(child, depth(self))

\* top_tree(context, child, self.depth + 1): the node the three entry points
\* call add_upper / remove_upper on
ChildNode(self, child) == top_tree(child, depth(self) + 1)

\* children slices handed to add_children_of_child: one child, two distinct
\* children, the same child twice (an empty slice makes no call at all)
Batches == {<<"b">>, <<"a", "b">>, <<"a", "a">>}

add_child_of_child(t, self, child) ==
    /\ ChildNode(self, child) \in Nodes
    /\ add_upper(t, ChildNode(self, child), self)
    /\ links' = [links EXCEPT ![<<ChildNode(self, child), self>>] = @ + 1]
    /\ call' = [call EXCEPT ![t] = [api |-> "add_child_of_child", node |-> self, rest |-> <<>>]]
    /\ UNCHANGED base

\* faulty variant: the loop of add_children_of_child asking for the child's node
\* at the depth of self
LoopChildNode_SameDepth(self, child) == top_tree(child, depth(self))

\* the body of the loop of add_children_of_child:
\* top_tree(context, child, self.depth + 1)
LoopChildNode(self, child) == top_tree(child, depth(self) + 1)

\* the first child of the slice
add_children_of_child(t, self, children) ==
    /\ \A i \in 1..Len(children) : LoopChildNode(self, children[i]) \in Nodes
    /\ add_upper(t, LoopChildNode(self, Head(children)), self)
    /\ links' = [links EXCEPT ![<<LoopChildNode(self, Head(children)), self>>] = @ + 1]
    /\ call' = [call EXCEPT ![t] =
                    [api |-> "add_children_of_child", node |-> self, rest |-> Tail(children)]]
    /\ UNCHANGED base

\* A removal that matches no live edge removes none.
remove_child_of_child(t, self, child) ==
    /\ ChildNode(self, child) \in Nodes
    /\ remove_upper(t, ChildNode(self, child), self)
    /\ links' = [links EXCEPT ![<<ChildNode(self, child), self>>] = IF @ > 0 THEN @ - 1 ELSE 0]
    /\ call' = [call EXCEPT ![t] = [api |-> "remove_child_of_child", node |-> self, rest |-> <<>>]]
    /\ UNCHANGED base

\* child_change called by the bottom tree that reports into node self
ExtChanges == {-1, 1}
bottom_child_change(t, self, change) ==
    /\ base[self] + change >= 0
    /\ child_change(t, <<>>, self, Some(change))
    /\ base' = [base EXCEPT ![self] = @ + change]
    /\ call' = [call EXCEPT ![t] = [api |-> "child_change", node |-> self, rest |-> <<>>]]
    /\ UNCHANGED links

\* get_root_info called from outside the tree
root_query(t, self, root_info_type) ==
    /\ get_root_info(t, <<>>, self, root_info_type)
    /\ call' = [call EXCEPT ![t] = [api |-> "get_root_info", node |-> self, rest |-> <<>>]]
    /\ UNCHANGED <<links, base>>

\* add_upper is pub(super): the enclosing module may call it on any node, also on
\* a node of depth 0; the links made this way
DirectLinks == {<<top_tree("a", 0), top_tree("b", 0)>>}

direct_add_upper(t, self, up) ==
    /\ add_upper(t, self, up)
    /\ links' = [links EXCEPT ![<<self, up>>] = @ + 1]
    /\ call' = [call EXCEPT ![t] = [api |-> "add_upper", node |-> self, rest |-> <<>>]]
    /\ UNCHANGED base

\* ------------------------------------------------------ the environments
\* "seq": one thread, any node; "conc": several threads, any node, a budget of
\* calls; "leaf": one thread working on the single leaf Leaf and its children.
Leaf == top_tree("a", 0)
LeafChildren == {ChildNode(Leaf, c) : c \in Items}
Selves(env) == IF env = "leaf" THEN {Leaf} ELSE Nodes
Reporters(env) == IF env = "leaf" THEN LeafChildren \cup {Leaf} ELSE Nodes
Edges(env) ==
    IF env = "leaf" THEN LeafEdges ELSE IF env = "query" THEN QueryEdges
    ELSE IF env = "guard" THEN GuardEdges ELSE MaxEdges
Reports(env) ==
    IF env = "leaf" THEN LeafBase ELSE IF env = "query" THEN QueryBase
    ELSE IF env = "guard" THEN GuardBase ELSE MaxBase
\* "guard": several threads that also take guards with lock_info, a budget of
\* calls; "query": one thread that builds link structures and queries them.
\* "book": one thread, any node, a budget of calls, every add_upper and
\* remove_upper entered in the account of its pair of nodes.
Counted(env) == env \in {"conc", "guard", "book"}
Calls(env) ==
    IF env = "guard" THEN GuardCalls ELSE IF env = "book" THEN BookCalls ELSE MaxCalls

\* thread t may start an entry point
CanCall(t, env) ==
    /\ IsIdle(t) /\ NoLocal
    /\ IF Counted(env) THEN ncalls < Calls(env) ELSE TRUE

\* the duplicate-edge script: the entry points called on Leaf, and the child
Script ==
    << <<"add_child_of_child", "a">>, <<"add_child_of_child", "b">>,
       <<"add_child_of_child", "a">>, <<"remove_child_of_child", "a">>,
       <<"remove_child_of_child", "a">> >>

\* snap after t has started an entry point of a sequential run
SnapEntry(t) ==
    LET c == call'[t]
        f == stack'[t][1]
    IN IF c.api = "add_child_of_child"
       THEN [phase |-> "added", node |-> c.node, child |-> f.self, children |-> <<f.self[1]>>,
             info |-> info, upper |-> upper]
       ELSE IF c.api = "add_children_of_child"
       THEN [phase |-> "batch", node |-> c.node, child |-> f.self,
             children |-> <<f.self[1]>> \o c.rest, info |-> info, upper |-> upper]
       ELSE IF /\ c.api = "remove_child_of_child" /\ snap.phase = "added"
               /\ snap.node = c.node /\ snap.child = f.self
            THEN [snap EXCEPT !.phase = "removing"]
            ELSE NoSnap

\* scen after t has started an entry point on Leaf: the script goes on, starts
\* (on a leaf without children), or is broken off
ScenEntry(t) ==
    LET c == call'[t]
        f == stack'[t][1]
        op == <<c.api, f.self[1]>>
        fresh == \A m \in Nodes : upper[m][Leaf] = 0
    IN IF scen.step > 0 /\ scen.step < Len(Script) /\ op = Script[scen.step + 1]
       THEN [step |-> scen.step + 1, invoked |-> scen.invoked + f.invoked,
             fired |-> Append(scen.fired, f.fwd # None)]
       ELSE IF op = Script[1] /\ fresh
            THEN [step |-> 1, invoked |-> f.invoked, fired |-> <<f.fwd # None>>]
            ELSE NoScen

\* the account after t has started an entry point: what add_upper or
\* remove_upper did to the count of the upper and whether it sent a change
BookEntry(t) ==
    LET f == stack'[t][1]
        p == <<f.self, f.upper>>
        before == upper[f.self][f.upper]
        after == upper'[f.self][f.upper]
    IN IF f.op = "add_upper"
       THEN [book EXCEPT ![p].adds = @ + 1,
                         ![p].firsts = IF before = 0 /\ after = 1 THEN @ + 1 ELSE @,
                         ![p].addCh = IF f.fwd # None THEN @ + 1 ELSE @]
       ELSE IF f.op = "remove_upper"
       THEN [book EXCEPT ![p].removes = @ + 1,
                         ![p].lasts = IF before = 1 /\ after = 0 THEN @ + 1 ELSE @,
                         ![p].remCh = IF f.fwd # None THEN @ + 1 ELSE @,
                         ![p].under = (@ \/ before = 0)]
       ELSE book

\* the ghosts when thread t starts an entry point (its first lock is taken)
ObserveEntry(t, env) ==
    /\ ncalls' = IF Counted(env) THEN ncalls + 1 ELSE ncalls
    /\ raced' = (raced \/ \E u \in Threads \ {t} : ~IsIdle(u))
    /\ snap' = IF env = "seq" THEN SnapEntry(t) ELSE snap
    /\ scen' = IF env = "leaf" THEN ScenEntry(t) ELSE scen
    /\ visits' = [visits EXCEPT ![t] =
                     IF call'[t].api = "get_root_info"
                     THEN [NoVisits EXCEPT ![stack'[t][1].self] = 1] ELSE NoVisits]
    /\ book' = IF env = "book" THEN BookEntry(t) ELSE book
    /\ UNCHANGED <<law, dreq, hasher>>

\* the ghosts when thread t goes on inside its entry point
ObserveStep(t) ==
    /\ raced' = (raced \/ ( /\ \E n \in Nodes : lock'[n] = t /\ lock[n] # t
                            /\ \E u \in Threads \ {t} : ~IsIdle(u) ))
    /\ snap' = IF snap.phase = "removing" /\ stack'[t] = <<>> /\ call'[t] = Idle
               THEN [snap EXCEPT !.phase = "restored"] ELSE snap
    /\ visits' = [visits EXCEPT ![t] =
                     IF stack'[t] = <<>> /\ call'[t] = Idle THEN NoVisits
                     ELSE IF call[t].api = "get_root_info"
                          THEN [n \in Nodes |-> IF lock'[n] = t /\ lock[n] # t THEN @[n] + 1 ELSE @[n]]
                          ELSE @]
    /\ UNCHANGED <<ncalls, scen, law, book, dreq, hasher>>

\* ------------------------------------------------------------- actions
AddChildOfChild(t, env) ==
    /\ CanCall(t, env)
    /\ LET used == EdgesInUse IN
       \E self \in Selves(env), child \in Items :
          used < Edges(env) /\ add_child_of_child(t, self, child)
    /\ ObserveEntry(t, env)

AddChildrenOfChild(t, env) ==
    /\ CanCall(t, env)
    /\ LET used == EdgesInUse IN
       \E self \in Selves(env), children \in Batches :
          used + Len(children) <= Edges(env) /\ add_children_of_child(t, self, children)
    /\ ObserveEntry(t, env)

\* the next child of the slice, once add_upper has returned for the one before
AddChildrenNext(t) ==
    /\ stack[t] = <<>> /\ NoLocal
    /\ call[t].api = "add_children_of_child"
    /\ call[t].rest # <<>>
    /\ LET self == call[t].node
           child == Head(call[t].rest)
       IN /\ add_upper(t, LoopChildNode(self, child), self)
          /\ links' = [links EXCEPT ![<<LoopChildNode(self, child), self>>] = @ + 1]
    /\ call' = [call EXCEPT ![t].rest = Tail(@)]
    /\ UNCHANGED base
    /\ ObserveStep(t)

RemoveChildOfChild(t, env) ==
    /\ CanCall(t, env)
    /\ \E self \in Selves(env), child \in Items : remove_child_of_child(t, self, child)
    /\ ObserveEntry(t, env)

BottomChildChange(t, env) ==
    /\ CanCall(t, env)
    /\ LET reported == SumOver(base, Nodes) IN
       \E self \in Reporters(env), change \in ExtChanges :
          reported + change <= Reports(env) /\ bottom_child_change(t, self, change)
    /\ ObserveEntry(t, env)

AddUpper(t, env) ==
    /\ CanCall(t, env)
    /\ LET used == EdgesInUse IN
       \E l \in DirectLinks : used < Edges(env) /\ direct_add_upper(t, l[1], l[2])
    /\ ObserveEntry(t, env)

RootQuery(t, env) ==
    /\ CanCall(t, env)
    /\ \E self \in Selves(env), kind \in RootInfoTypes : root_query(t, self, kind)
    /\ ObserveEntry(t, env)

Pending(t, op) ==
    /\ stack[t] # <<>>
    /\ Top(t).op = op
    /\ Top(t).pc = "lock"
    /\ NoLocal

\* upper.child_change(context, &change) in add_upper, remove_upper and
\* propagate_change_to_upper, the caller's lock held
ChildChangeCall(t) ==
    /\ Pending(t, "child_change")
    /\ child_change(t, Rest(t), Top(t).self, Top(t).change)
    /\ UNCHANGED <<call, links, base>>
    /\ ObserveStep(t)

\* upper.get_root_info(context, root_info_type) in get_root_info
GetRootInfoCall(t) ==
    /\ Pending(t, "get_root_info")
    /\ get_root_info(t, Rest(t), Top(t).self, Top(t).acc.kind)
    /\ UNCHANGED <<call, links, base>>
    /\ ObserveStep(t)

\* faulty variant: a loop that goes on after Break
LoopAfterMerge_NoBreak(flow) == "iter"

\* faulty variant: the loop left after the first upper
LoopAfterMerge_Stop(flow) == "ret"

\* get_root_info after a sub-query returned: whether the loop goes on
LoopAfterMerge(flow) == IF flow = "Break" THEN "ret" ELSE "iter"

\* the caller's frame after the call it waits for has returned `result`
Resume(g, result) ==
    IF g.op = "get_root_info"
    THEN LET m == merge_root_info(g.acc, result) IN
         [g EXCEPT !.acc = m.acc, !.pc = LoopAfterMerge(m.flow), !.broke = (m.flow = "Break"),
                   !.invoked = @ + 1]
    ELSE IF g.op = "child_change" THEN [g EXCEPT !.pc = "iter"]
    ELSE [g EXCEPT !.pc = "ret"]

\* The innermost call returns: its guard is dropped and the caller goes on; the
\* entry point is over when its last call has returned.
Return(t) ==
    /\ stack[t] # <<>>
    /\ Top(t).pc = "ret"
    /\ LET f == Top(t)
           rest == Rest(t)
       IN /\ lock' = Released(lock, f.self)
          /\ IF rest # <<>>
             THEN /\ LET g == Resume(rest[Len(rest)], f.acc) IN
                     \E next \in (IF g.pc = "iter" THEN Loop(g) ELSE {<<g>>}) :
                        stack' = [stack EXCEPT ![t] = SubSeq(rest, 1, Len(rest) - 1) \o next]
                  /\ UNCHANGED call
             ELSE /\ stack' = [stack EXCEPT ![t] = <<>>]
                  /\ call' = IF call[t].rest = <<>> THEN [call EXCEPT ![t] = Idle] ELSE call
    /\ UNCHANGED <<info, upper, links, base>>
    /\ ObserveStep(t)

\* ------------------------------------------------- AggregationInfoGuard
\* faulty variant: the reference to the tree declared, and so dropped, first
GuardDropOrder_TreeFirst == <<"tree", "guard">>

\* the fields of AggregationInfoGuard in the order of their declaration, in which
\* they are dropped
GuardDropOrder == <<"guard", "tree">>

\* the values a holder writes through deref_mut
GuardValues == {0, 1}

\* lock_info on self: the lock is taken and the guard returned to the caller
lock_info(t, self) ==
    /\ Unlocked(self)
    /\ lock' = [lock EXCEPT ![self] = t]
    /\ stack' = [stack EXCEPT ![t] =
                    <<[Frame("lock_info", self, NoNode, None, "-") EXCEPT
                          !.pc = "held", !.owns = {"guard", "tree"}]>>]
    /\ call' = [call EXCEPT ![t] = [api |-> "lock_info", node |-> self, rest |-> <<>>]]
    /\ UNCHANGED <<info, upper, links, base>>

LockInfo(t, env) ==
    /\ CanCall(t, env)
    /\ \E self \in Selves(env) : lock_info(t, self)
    /\ ObserveEntry(t, env)

\* the holder of a guard writes the data of the node through deref_mut
GuardWrite(t) ==
    /\ stack[t] # <<>> /\ NoLocal
    /\ Top(t).op = "lock_info" /\ Top(t).pc = "held"
    /\ \E v \in GuardValues \ {info[Top(t).self]} :
          info' = [info EXCEPT ![Top(t).self] = v]
    /\ UNCHANGED <<upper, lock, stack, call, links, base>>
    /\ ObserveStep(t)

\* The guard goes out of scope: its fields are dropped one after the other, the
\* MutexGuard releasing the lock and the Arc its reference to the tree.
DropField(t) ==
    /\ stack[t] # <<>>
    /\ Top(t).op = "lock_info"
    /\ IF Top(t).pc = "held" THEN NoLocal ELSE TRUE
    /\ LET f == Top(t)
           field == IF GuardDropOrder[1] \in f.owns THEN GuardDropOrder[1] ELSE GuardDropOrder[2]
           left == f.owns \ {field}
       IN /\ lock' = IF field = "guard" THEN Released(lock, f.self) ELSE lock
          /\ IF left = {}
             THEN /\ stack' = [stack EXCEPT ![t] = <<>>]
                  /\ call' = [call EXCEPT ![t] = Idle]
             ELSE /\ stack' = [stack EXCEPT ![t] = <<[f EXCEPT !.pc = "dropping", !.owns = left]>>]
                  /\ UNCHANGED call
    /\ UNCHANGED <<info, upper, links, base>>
    /\ ObserveStep(t)

\* ------------------------------------------ the depth arithmetic on its own
\* `self.depth + 1` on a u8: the sum if a u8 holds it; if not, a build with
\* overflow checks panics and a build without them wraps around. None is the
\* panic.
DepthPlusOne(d) ==
    IF d + 1 <= U8Max THEN {Some(d + 1)}
    ELSE {None, Some((d + 1) % (U8Max + 1))}

\* add_child_of_child, add_children_of_child or remove_child_of_child on a node of
\* depth dreq.depth evaluates self.depth + 1 for the factory
RequestChildDepth ==
    /\ ~dreq.done
    /\ \E out \in DepthPlusOne(dreq.depth) : dreq' = [dreq EXCEPT !.done = TRUE, !.out = out]
    /\ UNCHANGED <<info, upper, lock, stack, call, links, base, ncalls, raced, snap, scen, law,
                   visits, book, hasher>>

\* ------------------------------------------------------------ TaskHasher
\* the position of a task id among the task ids
TaskCode(task_id) ==
    IF task_id = <<"p", "build">> THEN 1 ELSE IF task_id = <<"q", "build">> THEN 2 ELSE 3

RECURSIVE ListCode(_)
ListCode(list) == IF list = <<>> THEN 0 ELSE 1 + Head(list) + 2 * ListCode(Tail(list))

\* TurboHash::hash of a TaskHashable: a value determined by its fields, the
\* pass_through_env among them
TurboHash(hashable) ==
    ( Len(hashable.pass_through_env)
      + 2 * (IF hashable.env_mode = "Loose" THEN 0 ELSE 1)
      + 3 * hashable.hash_of_files
      + 5 * ListCode(hashable.task_dependency_hashes) ) % HashSpace

\* TaskHashable::calculate_task_hash: in Loose mode the pass_through_env is
\* emptied before hashing
TaskHashable_calculate_task_hash(hashable) ==
    TurboHash(IF hashable.env_mode = "Loose"
              THEN [hashable EXCEPT !.pass_through_env = <<>>] ELSE hashable)

\* the ascending sequence of the elements of a set of numbers
RECURSIVE Sorted(_)
Sorted(set) ==
    IF set = {} THEN <<>>
    ELSE LET least == CHOOSE x \in set : \A y \in set : x <= y
         IN <<least>> \o Sorted(set \ {least})

\* faulty variant: every dependency passed over
SkipsDependency_All(node) == TRUE

\* calculate_dependency_hashes passes over Root and the tasks of the root package
SkipsDependency(node) ==
    IF node.kind # "Task" THEN TRUE ELSE package(node.id) = ROOT_PKG_NAME

\* calculate_dependency_hashes: the hashes of the dependencies, as a set
\* collected into a list and sorted, or the error of a dependency without hash
calculate_dependency_hashes(tracker, dependency_set) ==
    LET looked == {n \in dependency_set : ~SkipsDependency(n)}
    IN IF \E n \in looked : tracker[n.id] = None
       THEN [err |-> "MissingDependencyTaskHash", list |-> <<>>]
       ELSE [err |-> "", list |-> Sorted({Unwrap(tracker[n.id]) : n \in looked})]

\* the hash TaskHasher::calculate_task_hash computes for a task whose
\* package-inputs hash is known, from the dependency hashes
TaskHashOf(task_id, task_env_mode, pass_through_env, dependency_hashes) ==
    TurboHash([hash_of_files |-> TaskCode(task_id),
               task_dependency_hashes |-> dependency_hashes,
               pass_through_env |-> pass_through_env,
               env_mode |-> task_env_mode])

\* TaskHasher::calculate_task_hash; env_ok says whether the resolution of the
\* environment variables succeeded, other_env is the pass_through_env of a
\* second task definition that differs in nothing else
calculate_task_hash(task_id, task_env_mode, pass_through_env, dependency_set, env_ok, other_env) ==
    LET tracker == hasher.package_task_hashes
        deps == calculate_dependency_hashes(tracker, dependency_set)
        result == IF task_id \notin hasher.files THEN "MissingPackageFileHash"
                  ELSE IF ~env_ok THEN "Env"
                  ELSE IF deps.err # "" THEN deps.err
                  ELSE "Ok"
        hash == TaskHashOf(task_id, task_env_mode, pass_through_env, deps.list)
        done == [task |-> task_id, deps |-> dependency_set, mode |-> task_env_mode,
                 result |-> result,
                 hash |-> IF result = "Ok" THEN Some(hash) ELSE None,
                 fed |-> IF result = "Ok" THEN deps.list ELSE <<>>,
                 twin |-> IF result = "Ok"
                          THEN Some(TaskHashOf(task_id, task_env_mode, other_env, deps.list))
                          ELSE None,
                 before |-> <<hasher.package_task_hashes, hasher.package_task_env_vars>>]
    IN hasher' =
         IF result = "Ok"
         THEN [hasher EXCEPT !.package_task_hashes[task_id] = Some(hash),
                             !.package_task_env_vars[task_id] = Some(task_id),
                             !.calls = @ + 1, !.last = done]
         ELSE [hasher EXCEPT !.calls = @ + 1, !.last = done]

CalculateTaskHash ==
    /\ hasher.calls < HashCalls
    /\ \E task_id \in TaskIds, mode \in EnvModes, pte \in PassThroughEnvs,
          dependency_set \in SUBSET TaskNodes, env_ok \in BOOLEAN :
          \E other_env \in PassThroughEnvs \ {pte} :
             calculate_task_hash(task_id, mode, pte, dependency_set, env_ok, other_env)
    /\ UNCHANGED <<info, upper, lock, stack, call, links, base, ncalls, raced, snap, scen, law,
                   visits, book, dreq>>

\* ---------------------------------------- the counted set on its own
\* add(x) on the set, with the history of the calls and of the transitions
CountAddCall(x) ==
    /\ law.ops < MaxOps
    /\ LET r == CountAdd(law.set, x) IN
       law' = [law EXCEPT !.set = r.set, !.ops = @ + 1,
                  !.adds[x] = @ + 1,
                  !.addsTrue[x] = IF r.ret THEN @ + 1 ELSE @,
                  !.ups[x] = IF law.set[x] = 0 /\ r.set[x] = 1 THEN @ + 1 ELSE @]
    /\ UNCHANGED <<info, upper, lock, stack, call, links, base, ncalls, raced, snap, scen, visits, book, dreq, hasher>>

\* remove(x) on the set
CountRemoveCall(x) ==
    /\ law.ops < MaxOps
    /\ LET r == CountRemove(law.set, x) IN
       law' = [law EXCEPT !.set = r.set, !.ops = @ + 1,
                  !.removes[x] = @ + 1,
                  !.removesTrue[x] = IF r.ret THEN @ + 1 ELSE @,
                  !.downs[x] = IF law.set[x] = 1 /\ r.set[x] = 0 THEN @ + 1 ELSE @,
                  !.under[x] = (@ \/ law.set[x] = 0)]
    /\ UNCHANGED <<info, upper, lock, stack, call, links, base, ncalls, raced, snap, scen, visits, book, dreq, hasher>>

\* ------------------------------------------------------ specifications
\* several threads, interleaved at every lock acquisition
Next ==
    \E t \in Threads :
        \/ AddChildOfChild(t, "conc")
        \/ AddChildrenOfChild(t, "conc")
        \/ AddChildrenNext(t)
        \/ RemoveChildOfChild(t, "conc")
        \/ BottomChildChange(t, "conc")
        \/ RootQuery(t, "conc")
        \/ ChildChangeCall(t)
        \/ GetRootInfoCall(t)
        \/ Return(t)
Spec == Init /\ [][Next]_vars

\* one thread: every operation runs to completion before the next starts
NextSeq ==
    \/ AddChildOfChild("t1", "seq")
    \/ AddChildrenOfChild("t1", "seq")
    \/ AddChildrenNext("t1")
    \/ RemoveChildOfChild("t1", "seq")
    \/ BottomChildChange("t1", "seq")
    \/ RootQuery("t1", "seq")
    \/ ChildChangeCall("t1")
    \/ GetRootInfoCall("t1")
    \/ Return("t1")
SpecSeq == Init /\ [][NextSeq]_vars

\* several threads that also take and drop guards
NextGuard ==
    \E t \in Threads :
        \/ AddChildOfChild(t, "guard")
        \/ AddChildrenOfChild(t, "guard")
        \/ AddChildrenNext(t)
        \/ RemoveChildOfChild(t, "guard")
        \/ BottomChildChange(t, "guard")
        \/ RootQuery(t, "guard")
        \/ LockInfo(t, "guard")
        \/ GuardWrite(t)
        \/ DropField(t)
        \/ ChildChangeCall(t)
        \/ GetRootInfoCall(t)
        \/ Return(t)
SpecGuard == Init /\ [][NextGuard]_vars

\* what a thread does next inside a call it has started, or to drop its guard
Progress(t) ==
    \/ AddChildrenNext(t)
    \/ ChildChangeCall(t)
    \/ GetRootInfoCall(t)
    \/ Return(t)
    \/ DropField(t)

\* every thread is scheduled again and again, and every guard is dropped
SpecGuardFair == SpecGuard /\ \A t \in Threads : WF_vars(Progress(t))

\* one thread that builds link structures, reports into them and queries them
NextQuery ==
    \/ AddChildOfChild("t1", "query")
    \/ AddUpper("t1", "query")
    \/ BottomChildChange("t1", "query")
    \/ RootQuery("t1", "query")
    \/ ChildChangeCall("t1")
    \/ GetRootInfoCall("t1")
    \/ Return("t1")
SpecQuery == Init /\ [][NextQuery]_vars

\* one thread whose links are kept account of
NextBook ==
    \/ AddChildOfChild("t1", "book")
    \/ RemoveChildOfChild("t1", "book")
    \/ BottomChildChange("t1", "book")
    \/ ChildChangeCall("t1")
    \/ Return("t1")
SpecBook == Init /\ [][NextBook]_vars

\* calls of calculate_task_hash on one TaskHasher
NextHash == CalculateTaskHash
SpecHash == InitHash /\ [][NextHash]_vars

\* the depth asked of the factory, for a node of every depth
NextDepth == RequestChildDepth
SpecDepth == InitDepth /\ [][NextDepth]_vars

\* one thread on the single leaf Leaf and its children
NextLeaf ==
    \/ AddChildOfChild("t1", "leaf")
    \/ RemoveChildOfChild("t1", "leaf")
    \/ BottomChildChange("t1", "leaf")
    \/ ChildChangeCall("t1")
    \/ Return("t1")
SpecLeaf == Init /\ [][NextLeaf]_vars

\* calls of add and remove on one counted set
NextCount == \E x \in Elems : CountAddCall(x) \/ CountRemoveCall(x)
SpecCount == Init /\ [][NextCount]_vars

Quiescent == \A t \in Threads : IsIdle(t)
TypeOK ==
    /\ \A n \in Nodes : info[n] \in Int /\ lock[n] \in Threads \cup {NoThread}
    /\ \A t \in Threads : Len(stack[t]) <= MaxDepth + 2

\* ------------------------------------------------ recomputation from scratch
\* the nodes with a live structural edge into n
Lower(n) == {m \in Nodes : links[<<m, n>>] > 0}

\* what a linked lower node with info `data` contributes to its upper
Contribution(data) ==
    IF info_to_add_change(data) = None THEN 0 ELSE Unwrap(info_to_add_change(data))

\* The aggregate of n over the live edges: what was reported into n plus the
\* contributions of its lower nodes, `fuel` levels deep.
RECURSIVE Recompute(_, _)
Recompute(n, fuel) ==
    base[n] + IF fuel = 0 THEN 0
              ELSE SumOver([m \in Nodes |-> Contribution(Recompute(m, fuel - 1))], Lower(n))
FromScratch(n) == Recompute(n, MaxDepth)

\* ------------------------------------------------------------------ claims
\* C1 (propagation correctness): operations executed one at a time; after every
\* operation the info of each depth-0 node equals the aggregate recomputed from
\* scratch over the live edges with the same policy.
C1_PropagationCorrect ==
    Quiescent => \A n \in Nodes : depth(n) = 0 => info[n] = FromScratch(n)

\* a depth-0 node is live only through a lower node that is itself live only
\* through its own lower node: the change travelled two levels
C1_Witness ==
    /\ Quiescent
    /\ \E n \in Nodes :
          /\ depth(n) = 0 /\ base[n] = 0 /\ info[n] > 0
          /\ \A m \in Lower(n) : base[m] = 0

\* C2 (deadlock freedom): no set of threads in which each waits for a node lock
\* held by another thread of the set.
Waiting(t) ==
    /\ stack[t] # <<>>
    /\ Top(t).pc = "lock"
    /\ lock[Top(t).self] # NoThread
C2_NoDeadlock ==
    ~ \E S \in SUBSET Threads :
          /\ S # {}
          /\ \A t \in S : Waiting(t) /\ lock[Top(t).self] \in S \ {t}

\* a thread that holds a lock waits for a lock held by another thread, which is
\* itself inside a nested call
C2_Witness ==
    \E t \in Threads, u \in Threads :
        /\ t # u
        /\ Waiting(t) /\ Len(stack[t]) >= 2
        /\ lock[Top(t).self] = u
        /\ Len(stack[u]) >= 2

\* C3 (quiescent consistency): once all operations of a concurrent run have
\* completed, the info of every depth-0 node equals the recomputation from
\* scratch over the final live edges.
C3_QuiescentConsistent ==
    \A n \in Nodes :
        (depth(n) = 0 /\ \A t \in Threads : stack[t] = <<>> /\ call[t] = Idle)
            => info[n] = FromScratch(n)

\* all operations of a run in which the threads' calls overlapped have
\* completed, and a depth-0 node aggregates a change that travelled two levels
C3_Witness ==
    /\ raced
    /\ C1_Witness

\* C4 as stated (lock ordering): the node a thread acquires while it holds N's
\* lock has depth N.depth + 1.
C4_OrderUp ==
    \A t \in Threads : \A i \in 2..Len(stack[t]) :
        stack[t][i].pc # "lock" => depth(stack[t][i].self) = depth(stack[t][i - 1].self) + 1

\* C4 as amended: the node a thread acquires while it holds N's lock has depth
\* N.depth - 1 (add_upper and remove_upper run on the child's node, one level
\* deeper than the upper they report to).
C4_OrderDown ==
    \A t \in Threads : \A i \in 2..Len(stack[t]) :
        stack[t][i].pc # "lock" => depth(stack[t][i].self) = depth(stack[t][i - 1].self) - 1

\* a thread holds the locks of a chain of three nodes
C4_Witness ==
    \E t \in Threads :
        /\ Len(stack[t]) = 3
        /\ \A i \in 1..3 : lock[stack[t][i].self] = t

\* C5 as stated (depth of upper links): every U in N's uppers has depth
\* N.depth + 1.
C5_UpperDeeper ==
    \A n \in Nodes, u \in Nodes : upper[n][u] > 0 => depth(u) = depth(n) + 1

\* C5 as amended: every U in N's uppers has depth N.depth - 1.
C5_UpperShallower ==
    \A n \in Nodes, u \in Nodes : upper[n][u] > 0 => depth(u) = depth(n) - 1

\* a node linked to uppers while itself the upper of a node one level deeper
C5_Witness ==
    \E n \in Nodes, u \in Nodes, m \in Nodes :
        upper[n][u] > 0 /\ upper[m][n] > 0

\* C6 (symmetry): in a sequential run, add_child_of_child(x) on a node followed at
\* once by remove_child_of_child(x) on the same node leaves the info and the
\* uppers of every node as they were before the two operations.
C6_AddRemoveRestores ==
    snap.phase = "restored" => (info = snap.info /\ upper = snap.upper)

\* such a pair has completed for a live child over a fresh edge into a node that
\* was not live and has an upper of its own: both changes travelled two levels
C6_Witness ==
    /\ snap.phase = "restored"
    /\ info[snap.child] # 0
    /\ upper[snap.child][snap.node] = 0
    /\ info[snap.node] = 0
    /\ \E u \in Nodes : upper[snap.node][u] > 0

\* C7 as stated (count/dedup law): after k calls add(x) and j calls remove(x),
\* k >= j, in any order, x is present iff k - j > 0, add has returned true
\* exactly once and remove has returned true exactly once.
C7_CountLaw ==
    \A x \in Elems :
        law.adds[x] >= law.removes[x] =>
            /\ (law.set[x] > 0) = (law.adds[x] - law.removes[x] > 0)
            /\ law.adds[x] > 0 => law.addsTrue[x] = 1
            /\ (law.removes[x] > 0 /\ law.adds[x] = law.removes[x]) => law.removesTrue[x] = 1

\* C7 as amended: add returns true exactly on the transitions 0 -> 1 and remove
\* exactly on the transitions 1 -> 0, as often as they happen; and when no
\* remove(x) was called at count 0, the count of x is k - j, x is present iff
\* k - j > 0, and add has returned true once more than remove iff x is present.
C7_CountLawMatched ==
    \A x \in Elems :
        /\ law.addsTrue[x] = law.ups[x]
        /\ law.removesTrue[x] = law.downs[x]
        /\ ~law.under[x] =>
              /\ law.set[x] = law.adds[x] - law.removes[x]
              /\ (law.set[x] > 0) = (law.adds[x] - law.removes[x] > 0)
              /\ law.addsTrue[x] - law.removesTrue[x] = (IF law.set[x] > 0 THEN 1 ELSE 0)

\* add, remove, add of one element with no remove at count 0: add has returned
\* true twice
C7_Witness ==
    \E x \in Elems :
        /\ ~law.under[x]
        /\ law.adds[x] = 2 /\ law.removes[x] = 1
        /\ law.addsTrue[x] = 2 /\ law.removesTrue[x] = 1

\* C8 (duplicate-edge scenario): on Leaf, starting without children, the calls
\* add(a), add(b), add(a), remove(a), remove(a): info_to_add_change is invoked
\* for the first add of a and for the add of b and not for the second add of a;
\* the first remove fires no change and leaves a linked; the second remove
\* unlinks a and fires the remove change (a being live), and Leaf's info then
\* reflects the one child b.
C8_DuplicateEdge ==
    LET a == ChildNode(Leaf, "a")
        b == ChildNode(Leaf, "b")
    IN /\ scen.step >= 1 => scen.invoked = (IF scen.step = 1 THEN 1 ELSE 2)
       /\ scen.step >= 3 => ~scen.fired[3]
       /\ scen.step >= 4 => ~scen.fired[4]
       /\ scen.step = 4 => upper[a][Leaf] = 1
       /\ scen.step = 5 =>
             /\ upper[a][Leaf] = 0 /\ upper[b][Leaf] = 1
             /\ scen.fired[5] = (info[a] # 0)
             /\ IsIdle("t1") => info[Leaf] = base[Leaf] + Contribution(info[b])

\* the script has run to its end with both children live
C8_Witness ==
    /\ IsIdle("t1")
    /\ scen.step = 5
    /\ scen.fired[1] /\ scen.fired[2] /\ scen.fired[5]
    /\ base[Leaf] = 0 /\ info[Leaf] = 1

\* C9 (short-circuit): a get_root_info whose merge returned Break makes no
\* further call on an upper and takes no further lock; it is about to return
\* the accumulator of that merge.
C9_ShortCircuit ==
    \A t \in Threads : \A i \in 1..Len(stack[t]) :
        (stack[t][i].op = "get_root_info" /\ stack[t][i].broke) =>
            /\ i = Len(stack[t])
            /\ stack[t][i].pc = "ret"
            /\ stack[t][i].acc = merge_root_info(new_root_info(stack[t][i].acc.kind),
                                     info_to_root_info(1, stack[t][i].acc.kind)).acc

\* a query stopped by Break with uppers left unvisited
C9_Witness ==
    \E t \in Threads : \E i \in 1..Len(stack[t]) :
        /\ stack[t][i].op = "get_root_info"
        /\ stack[t][i].broke
        /\ stack[t][i].todo # {}

\* C10 (get_root_info is read-only): no step of a get_root_info call changes the
\* info or the uppers of any node.
C10_ReadOnly ==
    [][\A t \in Threads :
          (stack'[t] # stack[t] /\ (call[t].api = "get_root_info" \/ call'[t].api = "get_root_info"))
              => (info' = info /\ upper' = upper)]_vars

\* a query holds the locks of two nodes, the one it was called on being live and
\* linked to its upper
C10_Witness ==
    \E t \in Threads :
        /\ call[t].api = "get_root_info"
        /\ Len(stack[t]) >= 2
        /\ \A i \in 1..2 : lock[stack[t][i].self] = t
        /\ info[stack[t][1].self] # 0
        /\ upper[stack[t][1].self][stack[t][2].self] > 0

\* the frames of thread t that are inside a critical section, a lock held
InSection(t) == {i \in 1..Len(stack[t]) : stack[t][i].pc \notin {"lock", "dropping"}}

\* C11 (per-node mutual exclusion): a thread inside a critical section of a node,
\* or holding a guard for it, owns that node's lock, so no two threads are in the
\* critical sections of one node; and a step that changes the info or the uppers
\* of a node is taken by the thread that holds that node's lock after the step,
\* the lock having been free or its own before. Locks are per node: a step takes
\* the lock of at most one node.
C11_MutualExclusion ==
    /\ [](\A t \in Threads : \A i \in InSection(t) : lock[stack[t][i].self] = t)
    /\ [][ /\ \A n \in Nodes :
                (info'[n] # info[n] \/ upper'[n] # upper[n]) =>
                    (lock'[n] \in Threads /\ lock[n] \in {NoThread, lock'[n]})
            /\ Cardinality({m \in Nodes : lock'[m] # lock[m] /\ lock'[m] # NoThread}) <= 1 ]_vars

\* a thread waits for the lock of a node while another thread holds a guard for
\* that node and has written its data
C11_Witness ==
    \E t \in Threads, u \in Threads :
        /\ t # u
        /\ Waiting(t)
        /\ stack[u] # <<>> /\ Top(u).op = "lock_info" /\ Top(u).pc = "held"
        /\ Top(u).self = Top(t).self
        /\ info[Top(u).self] # base[Top(u).self]

\* C12 (lock_info guard): while a thread has a guard for N that still owns its
\* MutexGuard, N's lock is held by that thread and the guard still owns its
\* reference to N; once the MutexGuard is dropped the lock is free again or taken
\* by another thread.
C12_GuardHoldsLock ==
    \A t \in Threads : \A i \in 1..Len(stack[t]) :
        stack[t][i].op = "lock_info" =>
            IF "guard" \in stack[t][i].owns
            THEN lock[stack[t][i].self] = t /\ "tree" \in stack[t][i].owns
            ELSE lock[stack[t][i].self] # t

\* the guard has released the lock and still keeps the node alive
C12_Witness ==
    \E t \in Threads :
        /\ stack[t] # <<>>
        /\ Top(t).op = "lock_info"
        /\ Top(t).owns = {"tree"}
        /\ lock[Top(t).self] = NoThread

Starts(t, op) == stack[t] = <<>> /\ stack'[t] # <<>> /\ stack'[t][1].op = op

\* the step of thread t made parent.child_change(change) the next call of t
CallsParent(t, change) ==
    /\ Len(stack'[t]) = 2
    /\ stack'[t][2] = ChildChangeFrame(stack'[t][1].upper, change)

\* C14 (add_upper): add_upper(parent) on N calls parent.child_change exactly when
\* the count of parent in N.uppers goes from 0 to 1 and info_to_add_change(N.info)
\* yields a change, the change being computed from N's info under N's lock; when
\* parent is already linked only its count grows; the step changes no info, and
\* a call that forwards nothing changes none until it returns.
C14_AddUpper ==
    [][\A t \in Threads :
        /\ Starts(t, "add_upper") =>
              LET n == stack'[t][1].self
                  p == stack'[t][1].upper
                  change == info_to_add_change(info'[n])
              IN /\ lock'[n] = t /\ lock[n] = NoThread
                 /\ upper' = [upper EXCEPT ![n][p] = @ + 1]
                 /\ info' = info
                 /\ IF upper[n][p] = 0 /\ upper'[n][p] = 1 /\ change # None
                    THEN CallsParent(t, change)
                    ELSE Len(stack'[t]) = 1 /\ stack'[t][1].pc = "ret"
        /\ ( /\ stack[t] # <<>> /\ stack[t][1].op = "add_upper"
             /\ Len(stack[t]) = 1 /\ stack[t][1].fwd = None
             /\ stack'[t] # stack[t] ) => (info' = info /\ stack'[t] = <<>>)
      ]_vars

\* add_upper on a live node for a parent that was already linked: the count is 2
\* and the call is about to return without having called the parent
C14_Witness ==
    \E t \in Threads :
        /\ Len(stack[t]) = 1
        /\ Top(t).op = "add_upper" /\ Top(t).pc = "ret"
        /\ upper[Top(t).self][Top(t).upper] = 2
        /\ info[Top(t).self] # 0

\* C15 (remove_upper): remove_upper(parent) on N calls parent.child_change with
\* info_to_remove_change(N.info) exactly when the count of parent in N.uppers goes
\* from 1 to 0 and the policy yields a change; a count that stays above 0 forwards
\* nothing; at count 0 the call leaves N.uppers and every info unchanged.
C15_RemoveUpper ==
    [][\A t \in Threads :
        /\ Starts(t, "remove_upper") =>
              LET n == stack'[t][1].self
                  p == stack'[t][1].upper
                  change == info_to_remove_change(info'[n])
              IN /\ lock'[n] = t /\ lock[n] = NoThread
                 /\ upper' = IF upper[n][p] = 0 THEN upper
                             ELSE [upper EXCEPT ![n][p] = @ - 1]
                 /\ info' = info
                 /\ IF upper[n][p] = 1 /\ upper'[n][p] = 0 /\ change # None
                    THEN CallsParent(t, change)
                    ELSE Len(stack'[t]) = 1 /\ stack'[t][1].pc = "ret"
        /\ ( /\ stack[t] # <<>> /\ stack[t][1].op = "remove_upper"
             /\ Len(stack[t]) = 1 /\ stack[t][1].fwd = None
             /\ stack'[t] # stack[t] ) => (info' = info /\ upper' = upper /\ stack'[t] = <<>>)
      ]_vars

\* remove_upper on a live node for a parent that is still linked afterwards: the
\* call is about to return without having called the parent
C15_Witness ==
    \E t \in Threads :
        /\ Len(stack[t]) = 1
        /\ Top(t).op = "remove_upper" /\ Top(t).pc = "ret"
        /\ upper[Top(t).self][Top(t).upper] = 1
        /\ info[Top(t).self] # 0

\* the elements of a sequence
Range(seq) == {seq[i] : i \in 1..Len(seq)}

\* frame i of thread t has called each of the distinct uppers of its node that is
\* no longer to do exactly once, and no other node
CalledOnce(t, i) ==
    LET f == stack[t][i]
        all == CountIter(upper[f.self])
    IN /\ Range(f.called) \cup f.todo = all
       /\ Len(f.called) + Cardinality(f.todo) = Cardinality(all)
       /\ f.pc = "wait" =>
             /\ i < Len(stack[t])
             /\ stack[t][i + 1].self = f.called[Len(f.called)]
             /\ stack[t][i + 1].op = f.op
       /\ (f.pc = "ret" /\ ~f.broke) => f.todo = {}

\* thread t enters child_change on a node with this step, as frame i
EntersChildChange(t, i) ==
    /\ i \in 1..Len(stack'[t])
    /\ stack'[t][i].op = "child_change" /\ stack'[t][i].pc # "lock"
    /\ (i > Len(stack[t]) \/ stack[t][i].pc = "lock")

\* C16 (child_change): child_change(change) on N applies the change to N.info with
\* apply_change and, holding N's lock, calls child_change on every distinct upper
\* of N exactly once, whatever its count, with the change apply_change returned;
\* when apply_change returns none it calls no upper and changes no other info.
C16_ChildChange ==
    /\ [](\A t \in Threads : \A i \in 1..Len(stack[t]) :
            (stack[t][i].op = "child_change" /\ stack[t][i].pc # "lock") =>
                LET f == stack[t][i] IN
                /\ lock[f.self] = t
                /\ IF f.fwd = None
                   THEN f.called = <<>> /\ f.todo = {} /\ f.pc = "ret" /\ i = Len(stack[t])
                   ELSE /\ CalledOnce(t, i)
                        /\ f.pc = "wait" => stack[t][i + 1].change = f.fwd)
    /\ [][\A t \in Threads : \A i \in 1..(Len(stack[t]) + 1) :
            EntersChildChange(t, i) =>
                LET f == stack'[t][i]
                    applied == apply_change(info[f.self], Unwrap(f.change))
                IN /\ info' = [info EXCEPT ![f.self] = applied.data]
                   /\ f.fwd = applied.fwd
                   /\ upper' = upper
       ]_vars

\* a change was handed on to two distinct uppers, one of them linked twice
C16_Witness ==
    \E t \in Threads : \E i \in 1..Len(stack[t]) :
        /\ stack[t][i].op = "child_change" /\ stack[t][i].pc = "ret"
        /\ Len(stack[t][i].called) = 2
        /\ \E u \in Nodes : upper[stack[t][i].self][u] = 2

\* C17 (query at depth 0): get_root_info on a node of depth 0 returns
\* info_to_root_info(own info, kind); it visits no upper and calls neither
\* new_root_info nor merge_root_info, whatever its uppers contain.
C17_RootQuery ==
    \A t \in Threads : \A i \in 1..Len(stack[t]) :
        LET f == stack[t][i] IN
        (f.op = "get_root_info" /\ f.pc # "lock" /\ depth(f.self) = 0) =>
            /\ f.pc = "ret" /\ i = Len(stack[t])
            /\ f.acc = info_to_root_info(info[f.self], f.acc.kind)
            /\ f.called = <<>> /\ f.todo = {} /\ f.invoked = 0

\* a query is about to return from a live node of depth 0 that has an upper
C17_Witness ==
    \E t \in Threads :
        /\ Len(stack[t]) = 1
        /\ Top(t).op = "get_root_info" /\ Top(t).pc = "ret"
        /\ depth(Top(t).self) = 0
        /\ info[Top(t).self] # 0
        /\ CountIter(upper[Top(t).self]) # {}
        /\ Top(t).acc.val # 0

\* What a query on n returns when no merge breaks off: at depth 0 the node's
\* own info as root info, above it new_root_info folded with merge_root_info
\* over the results of the distinct uppers.
RECURSIVE RootInfoOf(_, _)
RECURSIVE FoldRootInfo(_, _)
RootInfoOf(n, kind) ==
    IF depth(n) = 0 THEN info_to_root_info(info[n], kind)
    ELSE FoldRootInfo(new_root_info(kind), CountIter(upper[n]))
FoldRootInfo(acc, todo) ==
    IF todo = {} THEN acc
    ELSE LET u == CHOOSE x \in todo : TRUE
         IN FoldRootInfo(merge_root_info(acc, RootInfoOf(u, acc.kind)).acc, todo \ {u})

\* C18 (query above depth 0): when no merge returns Break, get_root_info on a node
\* of depth > 0 returns new_root_info(kind) folded with merge_root_info over the
\* results of its distinct uppers, each queried exactly once whatever its count
\* (one new_root_info call, one merge per upper); its own info does not enter.
C18_FoldOverUppers ==
    \A t \in Threads : \A i \in 1..Len(stack[t]) :
        LET f == stack[t][i] IN
        (f.op = "get_root_info" /\ f.pc # "lock" /\ depth(f.self) > 0 /\ ~f.broke) =>
            /\ CalledOnce(t, i)
            /\ f.invoked = 1 + Len(f.called) - (IF f.pc = "wait" THEN 1 ELSE 0)
            /\ f.pc = "ret" =>
                  /\ Range(f.called) = CountIter(upper[f.self])
                  /\ f.acc = FoldRootInfo(new_root_info(f.acc.kind), CountIter(upper[f.self]))

\* a "Count" query is about to return from a live node that has two distinct
\* uppers, one of them linked twice, with a result that is not its own info
C18_Witness ==
    \E t \in Threads :
        /\ stack[t] # <<>>
        /\ Top(t).op = "get_root_info" /\ Top(t).pc = "ret"
        /\ Top(t).acc.kind = "Count"
        /\ depth(Top(t).self) > 0
        /\ Cardinality(CountIter(upper[Top(t).self])) = 2
        /\ \E u \in Nodes : upper[Top(t).self][u] = 2
        /\ info[Top(t).self] # 0
        /\ Top(t).acc.val # info[Top(t).self]

\* C19 (no revisit): in one get_root_info query no node is locked and read more
\* than once, whatever the link structure, also when two uppers of a node have
\* an upper in common.
C19_NoRevisit ==
    \A t \in Threads : \A n \in Nodes : visits[t][n] <= 1

\* the nodes whose lock thread t holds
Held(t) == {n \in Nodes : lock[n] = t}

\* the nodes of the frames of t that have taken their lock: the chain from the
\* node the call started at to the node being read
Chain(t) == {stack[t][i].self : i \in {j \in 1..Len(stack[t]) : stack[t][j].pc # "lock"}}

\* C20 (minimal chain): during get_root_info started at Q the querying thread
\* holds exactly the locks of the chain of calls from Q to the node being read,
\* each one level below the one before, so at most one per depth; the lock of a
\* node whose sub-query has returned is not held.
C20_MinimalChain ==
    \A t \in Threads :
        call[t].api = "get_root_info" =>
            /\ Held(t) = Chain(t)
            /\ \A i \in 1..Len(stack[t]) :
                  /\ stack[t][i].op = "get_root_info"
                  /\ depth(stack[t][i].self) = depth(call[t].node) - (i - 1)
            /\ \A n \in Held(t), m \in Held(t) : depth(n) = depth(m) => n = m
            /\ \A i \in 1..Len(stack[t]) :
                  \A u \in Range(stack[t][i].called) :
                      (i = Len(stack[t]) \/ stack[t][i + 1].self # u) => lock[u] # t

\* a query holds the locks of the node it started at and of the second upper it
\* reads, having returned from the sub-query on the first upper, whose lock it
\* no longer holds
C20_Witness ==
    \E t \in Threads :
        /\ call[t].api = "get_root_info"
        /\ Len(stack[t]) = 2
        /\ Cardinality(Held(t)) = 2
        /\ Len(stack[t][1].called) = 2
        /\ lock[stack[t][1].called[1]] # t

\* ------------------------------------------- calls computed as functions
\* child_change(change) on n carried out to its end by one thread alone: the
\* info of every node afterwards
RECURSIVE ChangeFx(_, _, _, _)
RECURSIVE ForwardFx(_, _, _, _)
ChangeFx(inf, upp, n, change) ==
    LET applied == apply_change(inf[n], change)
        inf1 == [inf EXCEPT ![n] = applied.data]
    IN IF applied.fwd = None THEN inf1
       ELSE ForwardFx(inf1, upp, CountIter(upp[n]), Unwrap(applied.fwd))
ForwardFx(inf, upp, todo, change) ==
    IF todo = {} THEN inf
    ELSE LET u == CHOOSE x \in todo : TRUE
         IN ForwardFx(ChangeFx(inf, upp, u, change), upp, todo \ {u}, change)

\* add_child_of_child(child) on self carried out to its end from the state st
AddChildFx(st, self, child) ==
    LET n == top_tree(child, depth(self) + 1)
        r == CountAdd(st.upper[n], self)
        upp1 == [st.upper EXCEPT ![n] = r.set]
        change == IF r.ret THEN info_to_add_change(st.info[n]) ELSE None
    IN [info |-> IF change = None THEN st.info
                 ELSE ChangeFx(st.info, upp1, self, Unwrap(change)),
        upper |-> upp1]

\* add_child_of_child on self for each element of children in order
RECURSIVE AddEachFx(_, _, _)
AddEachFx(st, self, children) ==
    IF children = <<>> THEN st
    ELSE AddEachFx(AddChildFx(st, self, Head(children)), self, Tail(children))

\* C21 (batch add): add_children_of_child(children) on N leaves the uppers and
\* the info of every node that add_child_of_child(c) on N for each c of children
\* in order leaves from the same starting state, each child's node being the
\* factory's node at depth N.depth + 1 and receiving add_upper(N); a single
\* add_child_of_child leaves what the one-element sequence leaves.
C21_BatchIsSequence ==
    (Quiescent /\ snap.phase \in {"added", "batch"}) =>
        [info |-> info, upper |-> upper]
            = AddEachFx([info |-> snap.info, upper |-> snap.upper], snap.node, snap.children)

\* a batch of two children has completed and has changed the info of N
C21_Witness ==
    /\ Quiescent
    /\ snap.phase = "batch"
    /\ Len(snap.children) = 2
    /\ info[snap.node] # snap.info[snap.node]
    /\ \A i \in 1..2 : upper[top_tree(snap.children[i], depth(snap.node) + 1)][snap.node] > 0

\* C22 (no self-deadlock): a thread about to acquire the lock of a node, for a
\* call nested in add_upper, remove_upper, child_change or get_root_info, does
\* not hold that lock; and a thread between calls holds no lock at all, so the
\* first lock of a call is never one it holds.
C22_NoSelfDeadlock ==
    \A t \in Threads :
        /\ (stack[t] # <<>> /\ Top(t).pc = "lock") => lock[Top(t).self] # t
        /\ stack[t] = <<>> => Held(t) = {}

\* a thread that holds the locks of two nodes is about to acquire a third one,
\* which is free
C22_Witness ==
    \E t \in Threads :
        /\ Len(stack[t]) = 3
        /\ Top(t).pc = "lock"
        /\ Cardinality(Held(t)) = 2
        /\ lock[Top(t).self] = NoThread

\* C23 as stated (link-count bookkeeping): in every quiescent state, removals
\* never having exceeded additions, U is in N.uppers iff more add_upper(U) than
\* remove_upper(U) calls have completed on N, and the add-changes N has sent to U
\* less the remove-changes are 1 if U is linked and 0 otherwise.
C23_NetChanges ==
    Quiescent =>
        \A n \in Nodes, u \in Nodes :
            LET b == book[<<n, u>>] IN
            ~b.under =>
                /\ (upper[n][u] > 0) = (b.adds > b.removes)
                /\ b.addCh - b.remCh = IF upper[n][u] > 0 THEN 1 ELSE 0

\* C23 as amended: removals never having exceeded additions, the count of U in
\* N.uppers is the completed add_upper(U) less the completed remove_upper(U)
\* calls on N; in any case the first links (count 0 -> 1) less the last unlinks
\* (count 1 -> 0) are 1 if U is linked and 0 otherwise, and changes are sent only
\* on those transitions, at most one each.
C23_NetTransitions ==
    Quiescent =>
        \A n \in Nodes, u \in Nodes :
            LET b == book[<<n, u>>] IN
            /\ ~b.under =>
                  /\ upper[n][u] = b.adds - b.removes
                  /\ (upper[n][u] > 0) = (b.adds > b.removes)
            /\ b.firsts - b.lasts = IF upper[n][u] > 0 THEN 1 ELSE 0
            /\ b.addCh <= b.firsts
            /\ b.remCh <= b.lasts

\* a node was linked while its info yielded no change, became live and was
\* unlinked: one remove-change and no add-change were sent
C23_Witness ==
    /\ Quiescent
    /\ \E n \in Nodes, u \in Nodes :
          /\ book[<<n, u>>].adds = 1 /\ book[<<n, u>>].removes = 1
          /\ book[<<n, u>>].addCh = 0 /\ book[<<n, u>>].remCh = 1
          /\ upper[n][u] = 0

\* C24 (depth arithmetic): for every depth d a u8 holds, 0..255, the entry points
\* on a node of depth d ask the factory for the node at depth d + 1; the addition
\* neither overflows nor wraps to 0.
C24_DepthInRange ==
    dreq.done => dreq.out = Some(dreq.depth + 1)

\* the dependencies of the last call that are tasks outside the root package
LookedUp == {n \in hasher.last.deps : n.kind = "Task" /\ package(n.id) # ROOT_PKG_NAME}

\* the condition of success: every such dependency had a recorded hash when the
\* call began, and the task has a package-inputs hash
HashReady ==
    /\ \A n \in LookedUp : hasher.last.before[1][n.id] # None
    /\ hasher.last.task \in hasher.files

\* the tracker's maps are what they were when the last call began
TrackerUnchanged ==
    <<hasher.package_task_hashes, hasher.package_task_env_vars>> = hasher.last.before

\* the tracker's maps differ from what they were in the entry of the task of the
\* last call, which is now present in both, and in nothing else
TrackerInsertedTask ==
    /\ hasher.package_task_hashes[hasher.last.task] = hasher.last.hash
    /\ hasher.package_task_env_vars[hasher.last.task] # None
    /\ \A i \in TaskIds \ {hasher.last.task} :
          /\ hasher.package_task_hashes[i] = hasher.last.before[1][i]
          /\ hasher.package_task_env_vars[i] = hasher.last.before[2][i]

\* the dependency hashes fed into the hash are the recorded hashes of the
\* looked-up dependencies, each once, ascending
FedSortedDedup ==
    /\ \A i \in 1..(Len(hasher.last.fed) - 1) : hasher.last.fed[i] < hasher.last.fed[i + 1]
    /\ Range(hasher.last.fed) = {Unwrap(hasher.last.before[1][n.id]) : n \in LookedUp}

C26_LooseIgnoresPassThrough ==
    (hasher.last.result = "Ok" /\ hasher.last.mode = "Loose") =>
        hasher.last.hash = hasher.last.twin

====
